---- MODULE Spec2Model ----
(***************************************************************************)
(* Data_Table: the filter-expression parser/composer of TableToolbar.tsx,  *)
(* the client-side (non-FastAPI) filter / sort / paginate pipeline of the  *)
(* useDataTable hook (both versions of the hook found in the sources), the *)
(* hook of part_002 against the FastAPI endpoint (from its mount, with     *)
(* overlapping and failing requests), the second TableToolbar on that      *)
(* hook, and getNestedValue of DataTable.tsx.                              *)
(*                                                                         *)
(* A JavaScript string is a sequence of one-character strings, so that     *)
(* trim, indexOf, startsWith, slice, toLowerCase and includes are computed *)
(* character by character, as the code computes them.                      *)
(***************************************************************************)
EXTENDS Integers, Sequences, FiniteSets

VARIABLES
    \* ---- TableToolbar: one filter expression going through parse / compose
    expr,           \* raw filter expression handed to parseFilterExpression
    ui,             \* { op, v1, v2 } descriptor (an entry of columnFilterUI)
    composed,       \* result of composeFilterExpression(ui)
    pstage,         \* "idle" | "input" | "parsed" | "composed"
    \* ---- DataTable: one call of getNestedValue
    rowData,        \* the record handed to getNestedValue
    path,           \* the dotted path, as a sequence of key names and "."
    resolved,       \* the value returned
    rstage,         \* "idle" | "input" | "resolved"
    \* ---- useDataTable
    hookVersion,    \* 1: src/hooks/useDataTable.ts, 2: unnamed/part_002
    loading,        \* useState(true)
    data,           \* useState([]) : sequence of records
    totalItems,     \* version 2 only: useState(0)
    currentPage,    \* useState(1)
    itemsPerPage,   \* useState(10)
    sortConfig,     \* useState([]) : sequence of [key, direction]
    searchTerm,     \* filters.searchTerm
    columnFilters,  \* filters.columnFilters : entries in insertion order
    \* ---- useDataTable (part_002) against the FastAPI endpoint
    isUsingFastAPI, \* useState(false), set by initializeColumns
    inflight,       \* the data requests of loadData not yet settled
    lastRequest,    \* the most recent data request of loadData
    visibleColumns, \* columns: the keys of the columns with visible = true
    selectedColumns,\* useState([]) : keys sent as 'columns'
    columns,        \* useState([]) : the keys of the columns (a set: only
                    \* columns.length and the membership of a key are read)
    error,          \* useState(null) : the message of a failed loadData
    columnsPending, \* fetchAvailableColumns of initializeColumns is under way
    \* ---- TableToolbar: local state, timers
    searchInput,    \* useState(filters.searchTerm)
    debounce,       \* the setTimeout of the debounce effect, if pending
    sinceEdit,      \* ms since the search input was last edited (capped)
    columnsOpen,    \* useState(false)
    allowCloseRef,  \* useRef(true)
    closeTimer,     \* a setTimeout(..., 0) of a column handler is pending
    itemsPerPageInput \* useState(String(itemsPerPage))

parseVars == <<expr, ui, composed, pstage>>
resolveVars == <<rowData, path, resolved, rstage>>
\* the variables of the pure functions
pureVars == <<parseVars, resolveVars>>
hookVars == <<hookVersion, loading, data, totalItems, currentPage,
              itemsPerPage, sortConfig, searchTerm, columnFilters>>
apiVars == <<isUsingFastAPI, inflight, lastRequest, visibleColumns,
             selectedColumns, columns, error, columnsPending>>
toolbarVars == <<searchInput, debounce, sinceEdit, columnsOpen, allowCloseRef,
                 closeTimer, itemsPerPageInput>>
\* what the operations of the client-side pipeline leave alone
outsideHook == <<pureVars, toolbarVars, isUsingFastAPI, inflight, lastRequest,
                 selectedColumns, error, columnsPending>>
\* what the filter-expression functions leave alone
outsideParse == <<hookVars, apiVars, toolbarVars, resolveVars>>
vars == <<parseVars, resolveVars, hookVars, apiVars, toolbarVars>>

----------------------------------------------------------------------------
(* Bounds *)

\* longest raw filter expression enumerated for the parser
MaxLen == 4
\* largest page number setCurrentPage is called with
MaxPage == 2
\* the time that passes in one step of the clock, in ms
TickMs == 200
\* longest path handed to getNestedValue, in key names and dots
MaxPathLen == 3

----------------------------------------------------------------------------
(* JavaScript string primitives *)

SetMin(S) == CHOOSE x \in S : \A y \in S : x <= y
SetMax(S) == CHOOSE x \in S : \A y \in S : x >= y

\* String.prototype.trim (the only white space of the model is " ")
Trim(s) ==
    LET keep == {i \in 1..Len(s) : s[i] # " "}
    IN  IF keep = {} THEN <<>> ELSE SubSeq(s, SetMin(keep), SetMax(keep))

\* String.prototype.indexOf: 0-based position of the first occurrence, or -1
IndexOf(s, pat) ==
    LET hits == {i \in 1..(Len(s) - Len(pat) + 1) :
                     SubSeq(s, i, i + Len(pat) - 1) = pat}
    IN  IF hits = {} THEN -1 ELSE SetMin(hits) - 1

\* String.prototype.startsWith
StartsWith(s, pat) ==
    Len(s) >= Len(pat) /\ SubSeq(s, 1, Len(pat)) = pat

\* String.prototype.slice(from) and slice(from, to), 0-based, 0 <= from <= to
SliceFrom(s, from) == SubSeq(s, from + 1, Len(s))
SliceTo(s, from, to) == SubSeq(s, from + 1, to)

\* String.prototype.includes
Includes(s, pat) == IndexOf(s, pat) > -1

\* toLowerCase on the letters the model uses
LowerChar(c) ==
    CASE c = "B" -> "b"
      [] c = "P" -> "p"
      [] c = "O" -> "o"
      [] c = "E" -> "e"
      [] c = "R" -> "r"
      [] OTHER -> c

ToLowerCase(s) == [i \in 1..Len(s) |-> LowerChar(s[i])]

----------------------------------------------------------------------------
(* TableToolbar.tsx: parseFilterExpression / composeFilterExpression *)

EmptyUI == [op |-> "contains", v1 |-> <<>>, v2 |-> <<>>]

\* const ops = ['>=', '<=', '!=', '==', '>', '<', '=']
opsShortestFirst ==
    << <<">">>, <<"<">>, <<"=">>, <<">", "=">>, <<"<", "=">>,
       <<"!", "=">>, <<"=", "=">> >>

ops ==
    << <<">", "=">>, <<"<", "=">>, <<"!", "=">>, <<"=", "=">>,
       <<">">>, <<"<">>, <<"=">> >>

\* the switch (op) of parseFilterExpression
OperatorOf(op) ==
    CASE op = <<"=", "=">> -> "eq"
      [] op = <<"=">>      -> "eq"
      [] op = <<"!", "=">> -> "neq"
      [] op = <<">">>      -> "gt"
      [] op = <<">", "=">> -> "gte"
      [] op = <<"<">>      -> "lt"
      [] op = <<"<", "=">> -> "lte"

\* for (const op of ops) { if (trimmed.startsWith(op)) ... } ; default contains
RECURSIVE ParsePrefix(_, _)
ParsePrefix(trimmed, i) ==
    IF i > Len(ops)
    THEN [op |-> "contains", v1 |-> trimmed, v2 |-> <<>>]
    ELSE IF StartsWith(trimmed, ops[i])
         THEN [op |-> OperatorOf(ops[i]),
               v1 |-> Trim(SliceFrom(trimmed, Len(ops[i]))),
               v2 |-> <<>>]
         ELSE ParsePrefix(trimmed, i + 1)

\* the "between a..b" branch
ParseRange(trimmed, rangeIdx) ==
    [op |-> "between",
     v1 |-> Trim(SliceTo(trimmed, 0, rangeIdx)),
     v2 |-> Trim(SliceFrom(trimmed, rangeIdx + 2))]

\* a parser that tries the prefix operators before the range marker
parsePrefixBeforeRange(e) ==
    IF e = <<>> THEN EmptyUI
    ELSE LET trimmed == Trim(e)
             rangeIdx == IndexOf(trimmed, <<".", ".">>)
             pre == ParsePrefix(trimmed, 1)
         IN  IF pre.op # "contains" THEN pre
             ELSE IF rangeIdx > -1 THEN ParseRange(trimmed, rangeIdx)
             ELSE pre

parseFilterExpression(e) ==
    IF e = <<>> THEN EmptyUI
    ELSE LET trimmed == Trim(e)
             rangeIdx == IndexOf(trimmed, <<".", ".">>)
         IN  IF rangeIdx > -1
             THEN ParseRange(trimmed, rangeIdx)
             ELSE ParsePrefix(trimmed, 1)

\* a composer that emits the operator even when the operand is empty
composeKeepsEmptyOperand(u) ==
    CASE u.op = "contains" -> u.v1
      [] u.op = "eq"  -> <<"=", "=">> \o u.v1
      [] u.op = "neq" -> <<"!", "=">> \o u.v1
      [] u.op = "gt"  -> <<">">> \o u.v1
      [] u.op = "gte" -> <<">", "=">> \o u.v1
      [] u.op = "lt"  -> <<"<">> \o u.v1
      [] u.op = "lte" -> <<"<", "=">> \o u.v1
      [] u.op = "between" -> u.v1 \o <<".", ".">> \o u.v2
      [] OTHER -> u.v1

composeFilterExpression(u) ==
    IF u.v1 = <<>> /\ (u.op # "between" \/ u.v2 = <<>>) THEN <<>>
    ELSE CASE u.op = "contains" -> u.v1
           [] u.op = "eq"  -> <<"=", "=">> \o u.v1
           [] u.op = "neq" -> <<"!", "=">> \o u.v1
           [] u.op = "gt"  -> <<">">> \o u.v1
           [] u.op = "gte" -> <<">", "=">> \o u.v1
           [] u.op = "lt"  -> <<"<">> \o u.v1
           [] u.op = "lte" -> <<"<", "=">> \o u.v1
           [] u.op = "between" ->
                IF u.v1 # <<>> /\ u.v2 # <<>>
                THEN u.v1 \o <<".", ".">> \o u.v2
                ELSE <<>>
           [] OTHER -> u.v1

----------------------------------------------------------------------------
(* Record values.  A record is a function from its own keys to values; a   *)
(* key that is missing from a record reads as undefined.                   *)

Num(n) == [kind |-> "num", num |-> n]
Str(s) == [kind |-> "str", str |-> s]
Obj(o) == [kind |-> "obj", obj |-> o]
Undefined == [kind |-> "undefined"]
Null == [kind |-> "null"]

\* item[columnKey]
Get(item, key) == IF key \in DOMAIN item THEN item[key] ELSE Undefined

Digits == <<"0", "1", "2", "3", "4", "5", "6", "7", "8", "9">>

\* Number.prototype.toString for the naturals
RECURSIVE NumToString(_)
NumToString(n) ==
    IF n < 10 THEN <<Digits[n + 1]>>
    ELSE NumToString(n \div 10) \o <<Digits[(n % 10) + 1]>>

ObjectObject ==
    <<"[", "o", "b", "j", "e", "c", "t", " ", "O", "b", "j", "e", "c", "t", "]">>
UndefinedText == <<"u", "n", "d", "e", "f", "i", "n", "e", "d">>

\* String(value)
StringOf(v) ==
    CASE v.kind = "num" -> NumToString(v.num)
      [] v.kind = "str" -> v.str
      [] v.kind = "obj" -> ObjectObject
      [] v.kind = "undefined" -> UndefinedText

----------------------------------------------------------------------------
(* The record sets the data endpoint may answer with *)

Berlin == <<"B", "e", "r", "l", "i", "n">>
Paris == <<"P", "a", "r", "i", "s">>

\* the three records of the specification's scenarios
CitiesData ==
    << [id |-> Num(1), city |-> Str(Berlin)],
       [id |-> Num(2), city |-> Str(Paris)],
       [id |-> Num(3), city |-> Str(Berlin)] >>

\* the first record has no city
MissingCityData ==
    << [id |-> Num(1)],
       [id |-> Num(2), city |-> Str(Paris)],
       [id |-> Num(3), city |-> Str(Berlin)] >>

\* nested records, as jsonplaceholder's users carry them
NestedData ==
    << [id |-> Num(1), address |-> Obj([city |-> Str(Berlin)])],
       [id |-> Num(2), address |-> Obj([city |-> Str(Paris)])] >>

DataSets == <<CitiesData, MissingCityData, NestedData>>

\* the search terms typed into "Search all columns..."
SearchTerms == { <<>>, <<"B", "E", "R">>, <<"o", "b", "j", "e", "c", "t">> }

\* the values typed into a column filter input of the first toolbar
TypedFilterValues == { <<>>, <<" ">>, <<"E">> }

\* the numbers typed into the items-per-page input
TypedItemsPerPage == {0, 1, 2}

\* the operator / operand combinations entered in the second toolbar
UIInputs ==
    { [op |-> "gte", v1 |-> <<"2">>, v2 |-> <<>>],
      [op |-> "gte", v1 |-> <<>>, v2 |-> <<>>],
      [op |-> "between", v1 |-> <<>>, v2 |-> <<"2">>] }

----------------------------------------------------------------------------
(* api.ts *)

\* getColumnsFromData: the keys of the first three records
getColumnsFromData(d) ==
    UNION {DOMAIN d[i] : i \in {j \in 1..Len(d) : j <= 3}}

\* fetchFlexibleData: the 'filters' query parameter built from
\* options.filters (entries in Object.entries order); pairs is what
\* pairs.join(',') is applied to, present tells whether params.append ran
filtersParam(filters) ==
    LET Kept(e) == Trim(e.value) # <<>>
        kept == SelectSeq(filters, Kept)
        pairs == [i \in 1..Len(kept) |-> <<kept[i].key, Trim(kept[i].value)>>]
    IN  [present |-> Len(filters) > 0 /\ Len(pairs) > 0, pairs |-> pairs]

----------------------------------------------------------------------------
(* useDataTable: the client-side pipeline.  A record of the pipeline is    *)
(* named by its position in data, so a filtered or sorted result is a      *)
(* sequence of positions.                                                  *)

AllRows == [i \in 1..Len(data) |-> i]

\* Object.values(item).some(value =>
\*     String(value).toLowerCase().includes(searchLower))
MatchesSearch(item, term) ==
    \E k \in DOMAIN item :
        Includes(ToLowerCase(StringOf(item[k])), ToLowerCase(term))

\* String(item[columnKey]).toLowerCase().includes(filterValue.toLowerCase())
MatchesColumn(item, columnKey, filterValue) ==
    Includes(ToLowerCase(StringOf(Get(item, columnKey))),
             ToLowerCase(filterValue))

\* "Apply search filter"
SearchStep(rows) ==
    LET Keep(i) == MatchesSearch(data[i], searchTerm)
    IN  IF searchTerm # <<>> THEN SelectSeq(rows, Keep) ELSE rows

\* a loop body that filters data instead of the rows kept so far
ColumnStepFromData(filtered, entry) ==
    LET Keep(i) == MatchesColumn(data[i], entry.key, entry.value)
    IN  IF entry.value # <<>> THEN SelectSeq(AllRows, Keep) ELSE filtered

\* the body of Object.entries(filters.columnFilters).forEach(...)
ColumnStep(filtered, entry) ==
    LET Keep(i) == MatchesColumn(data[i], entry.key, entry.value)
    IN  IF entry.value # <<>> THEN SelectSeq(filtered, Keep) ELSE filtered

RECURSIVE ApplyColumnFilters(_, _, _)
ApplyColumnFilters(filtered, entries, j) ==
    IF j > Len(entries) THEN filtered
    ELSE ApplyColumnFilters(ColumnStep(filtered, entries[j]), entries, j + 1)

\* const filteredData = useMemo(...)
filteredDataOf(entries) == ApplyColumnFilters(SearchStep(AllRows), entries, 1)
\* part_002: "Server-side filtering, just return data as-is"
filteredData ==
    IF isUsingFastAPI THEN AllRows ELSE filteredDataOf(columnFilters)

----------------------------------------------------------------------------
(* The < and > of the sort comparator (abstract relational comparison) *)

\* UTF-16 code unit of the characters the record sets use
CharCode(c) ==
    CASE c = " " -> 32
      [] c \in {"0", "1", "2", "3", "4", "5", "6", "7", "8", "9"} ->
            48 + (CHOOSE d \in 0..9 : Digits[d + 1] = c)
      [] c = "B" -> 66  [] c = "O" -> 79  [] c = "P" -> 80
      [] c = "[" -> 91  [] c = "]" -> 93
      [] c = "a" -> 97  [] c = "b" -> 98  [] c = "c" -> 99
      [] c = "e" -> 101 [] c = "i" -> 105 [] c = "j" -> 106
      [] c = "l" -> 108 [] c = "n" -> 110 [] c = "o" -> 111
      [] c = "r" -> 114 [] c = "s" -> 115 [] c = "t" -> 116

\* string < string: by code units, a proper prefix being smaller
StringLess(s, t) ==
    \E i \in 1..(Len(t)) :
        /\ \A j \in 1..(i - 1) : j <= Len(s) /\ s[j] = t[j]
        /\ \/ i = Len(s) + 1
           \/ i <= Len(s) /\ CharCode(s[i]) < CharCode(t[i])

IsDigits(s) == \A i \in 1..Len(s) : s[i] \in {Digits[d] : d \in 1..10}

RECURSIVE DigitsValue(_)
DigitsValue(s) ==
    IF s = <<>> THEN 0
    ELSE 10 * DigitsValue(SubSeq(s, 1, Len(s) - 1))
         + (CharCode(s[Len(s)]) - 48)

\* ToPrimitive: an object becomes "[object Object]"
ToPrimitive(v) == IF v.kind = "obj" THEN Str(ObjectObject) ELSE v

\* ToNumber: undefined and non-numeric text are NaN
ToNumber(v) ==
    CASE v.kind = "num" -> [nan |-> FALSE, n |-> v.num]
      [] v.kind = "str" ->
            IF IsDigits(Trim(v.str))
            THEN [nan |-> FALSE, n |-> DigitsValue(Trim(v.str))]
            ELSE [nan |-> TRUE, n |-> 0]
      [] OTHER -> [nan |-> TRUE, n |-> 0]

\* a < b
JsLess(a, b) ==
    LET pa == ToPrimitive(a)
        pb == ToPrimitive(b)
    IN  IF pa.kind = "str" /\ pb.kind = "str"
        THEN StringLess(pa.str, pb.str)
        ELSE LET na == ToNumber(pa)
                 nb == ToNumber(pb)
             IN  ~na.nan /\ ~nb.nan /\ na.n < nb.n

----------------------------------------------------------------------------
(* useDataTable: sortedData *)

\* if (aValue < bValue) comparison = -1; else if (aValue > bValue) comparison = 1
Comparison(aValue, bValue) ==
    IF JsLess(aValue, bValue) THEN -1
    ELSE IF JsLess(bValue, aValue) THEN 1
    ELSE 0

\* the comparator handed to Array.prototype.sort: for (const sort of sortConfig)
RECURSIVE CompareFrom(_, _, _, _)
CompareFrom(a, b, config, k) ==
    IF k > Len(config) THEN 0
    ELSE LET c == Comparison(Get(a, config[k].key), Get(b, config[k].key))
         IN  IF c # 0
             THEN (IF config[k].direction = "desc" THEN -c ELSE c)
             ELSE CompareFrom(a, b, config, k + 1)

Compare(i, j) == CompareFrom(data[i], data[j], sortConfig, 1)

SeqRange(s) == {s[i] : i \in 1..Len(s)}

Permutations(s) ==
    {p \in [1..Len(s) -> SeqRange(s)] : SeqRange(p) = SeqRange(s)}

\* ECMAScript's "consistent comparator" on the rows being sorted
ConsistentComparator(rows) ==
    \A a, b, c \in SeqRange(rows) :
        /\ (Compare(a, b) = 0 /\ Compare(b, c) = 0) => Compare(a, c) = 0
        /\ (Compare(a, b) < 0 /\ Compare(b, c) < 0) => Compare(a, c) < 0

\* Array.prototype.sort is stable: ties keep their order in rows (rows is a
\* subsequence of AllRows, so that order is the order of the positions)
StableSorted(p) ==
    \A i, j \in 1..Len(p) :
        i < j => \/ Compare(p[i], p[j]) < 0
                 \/ Compare(p[i], p[j]) = 0 /\ p[i] < p[j]

\* [...filteredData].sort(comparator): the results the engine may produce.
\* The order is implementation-defined when the comparator is inconsistent.
SortOutcomes(rows) ==
    IF ConsistentComparator(rows)
    THEN {p \in Permutations(rows) : StableSorted(p)}
    ELSE Permutations(rows)

\* const sortedData = useMemo(...): every result the sort may give
sortedData ==
    IF isUsingFastAPI \/ Len(sortConfig) = 0
    THEN {filteredData} ELSE SortOutcomes(filteredData)

----------------------------------------------------------------------------
(* useDataTable: pagination info *)

\* useState(10)
DefaultItemsPerPage == 10

\* version 1: sortedData.length ; version 2: the totalItems state
TotalItems ==
    IF hookVersion = 1 THEN Len(filteredData) ELSE totalItems

\* Math.floor(totalItems / itemsPerPage): the page count without the last,
\* partial page
totalPagesFloor == TotalItems \div itemsPerPage

\* Math.ceil(totalItems / itemsPerPage)
totalPages == (TotalItems + itemsPerPage - 1) \div itemsPerPage

\* a slice starting one page too far
pageSliceFromPage(sorted, page, limit) ==
    SubSeq(sorted, page * limit + 1,
           IF (page + 1) * limit < Len(sorted)
           THEN (page + 1) * limit ELSE Len(sorted))

\* sorted.slice(startIndex, startIndex + limit), startIndex = (page - 1) * limit
pageSlice(sorted, page, limit) ==
    LET startIndex == (page - 1) * limit
        stop == IF startIndex + limit < Len(sorted)
                THEN startIndex + limit ELSE Len(sorted)
    IN  SubSeq(sorted, startIndex + 1, stop)

\* paginatedData: the server's page as it is, or the client-side slice
paginatedData(sorted) ==
    IF isUsingFastAPI THEN sorted
    ELSE pageSlice(sorted, currentPage, itemsPerPage)

----------------------------------------------------------------------------
(* useDataTable: state changes *)

HasKey(entries, key) == \E i \in 1..Len(entries) : entries[i].key = key

\* { ...prev.columnFilters, [key]: value }: an existing key keeps its place
SetEntry(entries, key, value) ==
    IF HasKey(entries, key)
    THEN [i \in 1..Len(entries) |->
             IF entries[i].key = key
             THEN [key |-> key, value |-> value] ELSE entries[i]]
    ELSE Append(entries, [key |-> key, value |-> value])

\* filters.columnFilters[key] || ''
FilterValue(entries, key) ==
    IF HasKey(entries, key)
    THEN (CHOOSE e \in SeqRange(entries) : e.key = key).value
    ELSE <<>>

updateFilter(filterType, key, value) ==
    /\ IF filterType = "search"
       THEN searchTerm' = value /\ UNCHANGED columnFilters
       ELSE columnFilters' = SetEntry(columnFilters, key, value)
            /\ UNCHANGED searchTerm
    /\ currentPage' = 1
    /\ UNCHANGED <<hookVersion, loading, data, totalItems, itemsPerPage,
                   sortConfig>>
    /\ UNCHANGED <<outsideHook, visibleColumns, columns>>

\* the fetch of loadData settles with the records of the endpoint
LoadData(n) ==
    /\ loading
    /\ data' = DataSets[n]
    /\ totalItems' = IF hookVersion = 2 THEN Len(DataSets[n]) ELSE totalItems
    /\ columns' = getColumnsFromData(DataSets[n])
    /\ visibleColumns' = columns'
    /\ loading' = FALSE
    /\ UNCHANGED <<hookVersion, currentPage, itemsPerPage, sortConfig,
                   searchTerm, columnFilters>>
    /\ UNCHANGED outsideHook

\* handleSearchKeyDown, handleSearchChange on an emptied input, the debounce
\* timer: onUpdateFilter('search', '', value)
SearchFilter(value) ==
    /\ ~loading
    /\ updateFilter("search", <<>>, value)

\* first toolbar: onChange of a column filter input, and the "x" of a badge
TypeColumnFilter(key, value) ==
    /\ ~loading
    /\ key \in getColumnsFromData(data)
    /\ updateFilter("column", key, value)

\* second toolbar: commitColumnFilter with columnFilterUI[key] = u
commitColumnFilter(key, u) ==
    /\ ~loading
    /\ key \in getColumnsFromData(data)
    /\ updateFilter("column", key, composeFilterExpression(u))

clearFilters ==
    /\ ~loading
    /\ searchTerm' = <<>>
    /\ columnFilters' = <<>>
    /\ currentPage' = 1
    /\ UNCHANGED <<hookVersion, loading, data, totalItems, itemsPerPage,
                   sortConfig>>
    /\ UNCHANGED <<outsideHook, visibleColumns, columns>>

\* prevSort.findIndex(sort => sort.key === columnKey), 1-based, 0 for -1
ExistingIndex(prevSort, columnKey) ==
    LET hits == {i \in 1..Len(prevSort) : prevSort[i].key = columnKey}
    IN  IF hits = {} THEN 0 ELSE SetMin(hits)

RemoveAt(s, i) == SubSeq(s, 1, i - 1) \o SubSeq(s, i + 1, Len(s))

\* an updater whose plain branch keeps the other keys when the clicked key is
\* new
NextSortConfigKeepsOthers(prevSort, columnKey, multiSort) ==
    LET existingIndex == ExistingIndex(prevSort, columnKey)
    IN  IF existingIndex > 0
        THEN IF ~multiSort
             THEN IF prevSort[existingIndex].direction = "desc"
                  THEN <<>>
                  ELSE << [key |-> columnKey, direction |-> "desc"] >>
             ELSE IF prevSort[existingIndex].direction = "desc"
                  THEN RemoveAt(prevSort, existingIndex)
                  ELSE [prevSort EXCEPT ![existingIndex].direction = "desc"]
        ELSE Append(prevSort, [key |-> columnKey, direction |-> "asc"])

\* an updater whose multi-sort branch pushes a desc entry for a key that is
\* asc instead of changing the entry
NextSortConfigPushesDesc(prevSort, columnKey, multiSort) ==
    LET existingIndex == ExistingIndex(prevSort, columnKey)
    IN  IF ~multiSort
        THEN IF existingIndex > 0
             THEN IF prevSort[existingIndex].direction = "desc"
                  THEN <<>>
                  ELSE << [key |-> columnKey, direction |-> "desc"] >>
             ELSE << [key |-> columnKey, direction |-> "asc"] >>
        ELSE IF existingIndex > 0
             THEN IF prevSort[existingIndex].direction = "desc"
                  THEN RemoveAt(prevSort, existingIndex)
                  ELSE Append(prevSort, [key |-> columnKey, direction |-> "desc"])
             ELSE Append(prevSort, [key |-> columnKey, direction |-> "asc"])

\* an updater whose multi-sort branch puts a new key first (unshift)
NextSortConfigPrepends(prevSort, columnKey, multiSort) ==
    LET existingIndex == ExistingIndex(prevSort, columnKey)
    IN  IF ~multiSort
        THEN IF existingIndex > 0
             THEN IF prevSort[existingIndex].direction = "desc"
                  THEN <<>>
                  ELSE << [key |-> columnKey, direction |-> "desc"] >>
             ELSE << [key |-> columnKey, direction |-> "asc"] >>
        ELSE IF existingIndex > 0
             THEN IF prevSort[existingIndex].direction = "desc"
                  THEN RemoveAt(prevSort, existingIndex)
                  ELSE [prevSort EXCEPT ![existingIndex].direction = "desc"]
             ELSE <<[key |-> columnKey, direction |-> "asc"]>> \o prevSort

\* the updater handed to setSortConfig
NextSortConfig(prevSort, columnKey, multiSort) ==
    LET existingIndex == ExistingIndex(prevSort, columnKey)
    IN  IF ~multiSort
        THEN IF existingIndex > 0
             THEN IF prevSort[existingIndex].direction = "desc"
                  THEN <<>>
                  ELSE << [key |-> columnKey, direction |-> "desc"] >>
             ELSE << [key |-> columnKey, direction |-> "asc"] >>
        ELSE IF existingIndex > 0
             THEN IF prevSort[existingIndex].direction = "desc"
                  THEN RemoveAt(prevSort, existingIndex)
                  ELSE [prevSort EXCEPT ![existingIndex].direction = "desc"]
             ELSE Append(prevSort, [key |-> columnKey, direction |-> "asc"])

handleSort(columnKey, multiSort) ==
    /\ ~loading
    /\ columnKey \in getColumnsFromData(data)
    /\ sortConfig' = NextSortConfig(sortConfig, columnKey, multiSort)
    /\ UNCHANGED <<hookVersion, loading, data, totalItems, currentPage,
                   itemsPerPage, searchTerm, columnFilters>>
    /\ UNCHANGED <<outsideHook, visibleColumns, columns>>

setCurrentPage(page) ==
    /\ ~loading
    /\ currentPage' = page
    /\ UNCHANGED <<hookVersion, loading, data, totalItems, itemsPerPage,
                   sortConfig, searchTerm, columnFilters>>
    /\ UNCHANGED <<outsideHook, visibleColumns, columns>>

\* Math.min(totalItems, parsed) without the Math.max(1, ...)
ClampUpperOnly(total, parsed) == IF total < parsed THEN total ELSE parsed

\* Math.max(1, Math.min(totalItems, parsed))
Clamp(total, parsed) ==
    LET m == IF total < parsed THEN total ELSE parsed
    IN  IF m < 1 THEN 1 ELSE m

\* commitItemsPerPage with a number typed, calling updateItemsPerPage
commitItemsPerPage(parsed) ==
    /\ ~loading
    /\ LET clamped == Clamp(TotalItems, parsed)
       IN  IF clamped # itemsPerPage
           THEN itemsPerPage' = clamped /\ currentPage' = 1
           ELSE UNCHANGED <<itemsPerPage, currentPage>>
    /\ UNCHANGED <<hookVersion, loading, data, totalItems, sortConfig,
                   searchTerm, columnFilters>>
    /\ UNCHANGED <<outsideHook, visibleColumns, columns>>

----------------------------------------------------------------------------
(* The hook with its toolbar *)

\* no call of getNestedValue under way
ResolveIdle ==
    /\ rowData = <<>>
    /\ path = <<>>
    /\ resolved = Undefined
    /\ rstage = "idle"

ParseIdle ==
    /\ expr = <<>>
    /\ ui = EmptyUI
    /\ composed = <<>>
    /\ pstage = "idle"
    /\ ResolveIdle

\* the hook before initializeColumns has detected the endpoint: legacy mode
ApiIdle ==
    /\ isUsingFastAPI = FALSE
    /\ inflight = <<>>
    /\ lastRequest = [none |-> TRUE]
    /\ visibleColumns = {}
    /\ selectedColumns = <<>>
    /\ columns = {}
    /\ error = Null
    /\ columnsPending = FALSE

\* the toolbar is not rendered (DataTable shows the spinner)
ToolbarIdle ==
    /\ searchInput = <<>>
    /\ debounce = [pending |-> FALSE]
    /\ sinceEdit = 0
    /\ columnsOpen = FALSE
    /\ allowCloseRef = TRUE
    /\ closeTimer = FALSE
    /\ itemsPerPageInput = <<>>

HookInit ==
    /\ loading = TRUE
    /\ data = <<>>
    /\ totalItems = 0
    /\ currentPage = 1
    /\ itemsPerPage = DefaultItemsPerPage
    /\ sortConfig = <<>>
    /\ searchTerm = <<>>
    /\ columnFilters = <<>>

Init ==
    /\ hookVersion \in {1, 2}
    /\ HookInit
    /\ ParseIdle
    /\ ApiIdle
    /\ ToolbarIdle

Next ==
    \/ \E n \in DOMAIN DataSets : LoadData(n)
    \/ \E value \in SearchTerms : SearchFilter(value)
    \/ \E key \in {"id", "city", "address"}, value \in TypedFilterValues :
           TypeColumnFilter(key, value)
    \/ \E key \in {"id", "city", "address"}, u \in UIInputs :
           commitColumnFilter(key, u)
    \/ clearFilters
    \/ \E key \in {"id", "city", "address"}, multiSort \in BOOLEAN :
           handleSort(key, multiSort)
    \/ \E page \in 1..MaxPage : setCurrentPage(page)
    \/ \E parsed \in TypedItemsPerPage : commitItemsPerPage(parsed)

Spec == Init /\ [][Next]_vars

----------------------------------------------------------------------------
(* useDataTable (part_002) against the FastAPI endpoint: every change of    *)
(* page, page size, search term or sort issues a fetchFlexibleData call,    *)
(* and the server filters, sorts and paginates.                             *)

\* the records the backend holds
ServerData == CitiesData

\* the expression committed from the filter popover in this mode
ApiFilterInputs ==
    { [op |-> "contains", v1 |-> Paris, v2 |-> <<>>],
      [op |-> "contains", v1 |-> <<>>, v2 |-> <<>>] }

\* Object.keys(columnsInfo): the columns the backend offers
ColumnKeys == <<"id", "city">>

\* loadData: the options handed to fetchFlexibleData; 'filters' is not among
\* them (undefined, here the empty list of entries)
OptionsOf(selected, page, limit, search, sort) ==
    [columns |-> selected, page |-> page, limit |-> limit, search |-> search,
     sortBy |-> IF Len(sort) > 0 THEN sort[1].key ELSE "",
     sortOrder |-> IF Len(sort) > 0 THEN sort[1].direction ELSE "",
     filters |-> <<>>]

\* fetchFlexibleData: the query parameters built from the options (an empty
\* value stands for a parameter that is not appended)
QueryOf(options) ==
    [columns |-> options.columns,
     page |-> options.page, limit |-> options.limit,
     search |-> options.search,
     sort_by |-> options.sortBy, sort_order |-> options.sortOrder,
     filters |-> filtersParam(options.filters)]

\* fetchTableData(apiUrl): the request of the legacy branch of loadData
LegacyRequest == [legacy |-> TRUE]

\* backend, 'search' and 'filters': case-insensitive substring
ServerMatches(item, query) ==
    /\ \/ query.search = <<>>
       \/ \E k \in DOMAIN item :
              Includes(ToLowerCase(StringOf(item[k])), ToLowerCase(query.search))
    /\ \/ ~query.filters.present
       \/ \A n \in 1..Len(query.filters.pairs) :
              LET pair == query.filters.pairs[n]
              IN  /\ pair[1] \in DOMAIN item
                  /\ Includes(ToLowerCase(StringOf(item[pair[1]])),
                              ToLowerCase(pair[2]))

\* backend, 'sort_by' / 'sort_order': a stable sort of the matching records
ServerBefore(a, b, query) ==
    IF query.sort_order = "desc"
    THEN JsLess(Get(ServerData[b], query.sort_by), Get(ServerData[a], query.sort_by))
    ELSE JsLess(Get(ServerData[a], query.sort_by), Get(ServerData[b], query.sort_by))

ServerSorted(query) ==
    LET matching == SelectSeq([i \in 1..Len(ServerData) |-> i],
                              LAMBDA i : ServerMatches(ServerData[i], query))
    IN  IF query.sort_by = "" THEN matching
        ELSE CHOOSE p \in Permutations(matching) :
                 \A i, j \in 1..Len(p) :
                     i < j => \/ ServerBefore(p[i], p[j], query)
                              \/ ~ServerBefore(p[j], p[i], query) /\ p[i] < p[j]

\* backend, 'columns', 'page' / 'limit': { data, total }
ServerResponse(query) ==
    LET sorted == ServerSorted(query)
        page == pageSlice(sorted, query.page, query.limit)
        keys(item) == IF query.columns = <<>> THEN DOMAIN item
                      ELSE DOMAIN item \cap SeqRange(query.columns)
    IN  [data |-> [n \in 1..Len(page) |->
                      [k \in keys(ServerData[page[n]]) |-> ServerData[page[n]][k]]],
         total |-> Len(sorted)]

\* what loadData's promise resolves to: the whole response of
\* fetchFlexibleData(options), or for fetchTableData(apiUrl) the records
\* fetched (through fetchFlexibleData() without options when apiUrl is the
\* FastAPI endpoint: the endpoint's default page, here every record), whose
\* number loadData takes as the total
ResultOf(request) ==
    IF request = LegacyRequest
    THEN [data |-> ServerData, total |-> Len(ServerData)]
    ELSE ServerResponse(request)

\* the loadData effect after the render that follows a batch of state
\* changes (React batches the changes of one handler or one continuation):
\* it runs when one of its dependencies has changed (setSelectedColumns always
\* hands over a new array), and calls loadData if columns.length > 0 ||
\* !isUsingFastAPI
EffectRuns(columnsSet) ==
    /\ Cardinality(columns') > 0 \/ ~isUsingFastAPI'
    /\ \/ columnsSet
       \/ <<currentPage', itemsPerPage', searchTerm', sortConfig',
            isUsingFastAPI', Cardinality(columns')>>
              # <<currentPage, itemsPerPage, searchTerm, sortConfig,
                  isUsingFastAPI, Cardinality(columns)>>

\* the request loadData sends from the state of that render
RequestAfter ==
    IF isUsingFastAPI'
    THEN QueryOf(OptionsOf(selectedColumns', currentPage', itemsPerPage',
                           searchTerm', sortConfig'))
    ELSE LegacyRequest

\* loadData up to its await: setLoading(true); setError(null); the fetch
LoadDataStarts(pending) ==
    /\ inflight' = Append(pending, RequestAfter)
    /\ lastRequest' = RequestAfter
    /\ loading' = TRUE
    /\ error' = Null

LoadDataEffect(columnsSet) ==
    IF EffectRuns(columnsSet)
    THEN LoadDataStarts(inflight)
    ELSE UNCHANGED <<inflight, lastRequest, loading, error>>

\* what no operation of the toolbar or the table changes by itself
HookFrame ==
    UNCHANGED <<hookVersion, data, totalItems, isUsingFastAPI, columns,
                columnsPending, pureVars>>

\* loadData settles: setData; setTotalItems; (legacy branch, chosen by the
\* isUsingFastAPI of the render that started it: setColumns);
\* setLoading(false); then the render and the loadData effect
Settle(i) ==
    /\ i \in 1..Len(inflight)
    /\ LET request == inflight[i]
           result == ResultOf(request)
       IN  /\ data' = result.data
           /\ totalItems' = result.total
           /\ IF request = LegacyRequest
              THEN /\ columns' = getColumnsFromData(result.data)
                   /\ visibleColumns' = columns'
              ELSE UNCHANGED <<columns, visibleColumns>>
    /\ UNCHANGED <<hookVersion, currentPage, itemsPerPage, sortConfig,
                   searchTerm, columnFilters, isUsingFastAPI,
                   selectedColumns, columnsPending>>
    /\ IF EffectRuns(FALSE)
       THEN LoadDataStarts(RemoveAt(inflight, i))
       ELSE /\ inflight' = RemoveAt(inflight, i)
            /\ loading' = FALSE
            /\ UNCHANGED <<lastRequest, error>>
    /\ UNCHANGED pureVars

\* The operations of the hook of part_002, each with the render and the
\* loadData effect that follow it.  DataTable renders the toolbar and the
\* table only while loading is false.

\* updateFilter without its setCurrentPage(1)
HookUpdateFilterKeepsPage(filterType, key, value) ==
    /\ ~loading
    /\ IF filterType = "search"
       THEN searchTerm' = value /\ UNCHANGED columnFilters
       ELSE columnFilters' = SetEntry(columnFilters, key, value)
            /\ UNCHANGED searchTerm
    /\ UNCHANGED <<currentPage, itemsPerPage, sortConfig, visibleColumns,
                   selectedColumns>>
    /\ HookFrame
    /\ LoadDataEffect(FALSE)

HookUpdateFilter(filterType, key, value) ==
    /\ ~loading
    /\ IF filterType = "search"
       THEN searchTerm' = value /\ UNCHANGED columnFilters
       ELSE columnFilters' = SetEntry(columnFilters, key, value)
            /\ UNCHANGED searchTerm
    /\ currentPage' = 1
    /\ UNCHANGED <<itemsPerPage, sortConfig, visibleColumns, selectedColumns>>
    /\ HookFrame
    /\ LoadDataEffect(FALSE)

HookClearFilters ==
    /\ ~loading
    /\ searchTerm' = <<>>
    /\ columnFilters' = <<>>
    /\ currentPage' = 1
    /\ UNCHANGED <<itemsPerPage, sortConfig, visibleColumns, selectedColumns>>
    /\ HookFrame
    /\ LoadDataEffect(FALSE)

HookHandleSort(columnKey, multiSort) ==
    /\ ~loading
    /\ sortConfig' = NextSortConfig(sortConfig, columnKey, multiSort)
    /\ UNCHANGED <<currentPage, itemsPerPage, searchTerm, columnFilters,
                   visibleColumns, selectedColumns>>
    /\ HookFrame
    /\ LoadDataEffect(FALSE)

HookSetCurrentPage(page) ==
    /\ ~loading
    /\ currentPage' = page
    /\ UNCHANGED <<itemsPerPage, sortConfig, searchTerm, columnFilters,
                   visibleColumns, selectedColumns>>
    /\ HookFrame
    /\ LoadDataEffect(FALSE)

HookUpdateItemsPerPage(newItemsPerPage) ==
    /\ ~loading
    /\ itemsPerPage' = newItemsPerPage
    /\ currentPage' = 1
    /\ UNCHANGED <<sortConfig, searchTerm, columnFilters, visibleColumns,
                   selectedColumns>>
    /\ HookFrame
    /\ LoadDataEffect(FALSE)

\* the keys of `keys` in the order of the columns
InColumnOrder(keys) == SelectSeq(ColumnKeys, LAMBDA k : k \in keys)

HookToggleColumnVisibility(columnKey) ==
    /\ ~loading
    /\ LET flipped == IF columnKey \in visibleColumns
                      THEN visibleColumns \ {columnKey}
                      ELSE visibleColumns \cup {columnKey}
       IN  /\ visibleColumns' = flipped
           /\ selectedColumns' = IF isUsingFastAPI THEN InColumnOrder(flipped)
                                 ELSE selectedColumns
    /\ UNCHANGED <<currentPage, itemsPerPage, sortConfig, searchTerm,
                   columnFilters>>
    /\ HookFrame
    /\ LoadDataEffect(isUsingFastAPI)

\* selectAllColumns / deselectAllColumns: updateSelectedColumns(columnKeys)
HookUpdateSelectedColumns(columnKeys) ==
    /\ ~loading
    /\ IF isUsingFastAPI
       THEN /\ selectedColumns' = columnKeys
            /\ visibleColumns' = SeqRange(columnKeys)
       ELSE UNCHANGED <<selectedColumns, visibleColumns>>
    /\ UNCHANGED <<currentPage, itemsPerPage, sortConfig, searchTerm,
                   columnFilters>>
    /\ HookFrame
    /\ LoadDataEffect(isUsingFastAPI)

\* the hook once initializeColumns has found the FastAPI endpoint and the
\* first fetchFlexibleData call is on its way
InitApi ==
    /\ hookVersion = 2
    /\ isUsingFastAPI = TRUE
    /\ loading = TRUE
    /\ data = <<>>
    /\ totalItems = 0
    /\ currentPage = 1
    /\ itemsPerPage = DefaultItemsPerPage
    /\ sortConfig = <<>>
    /\ searchTerm = <<>>
    /\ columnFilters = <<>>
    /\ visibleColumns = SeqRange(ColumnKeys)
    /\ selectedColumns = ColumnKeys
    /\ columns = SeqRange(ColumnKeys)
    /\ error = Null
    /\ columnsPending = FALSE
    /\ inflight = << QueryOf(OptionsOf(ColumnKeys, 1, DefaultItemsPerPage,
                                       <<>>, <<>>)) >>
    /\ lastRequest = inflight[1]
    /\ ParseIdle
    /\ ToolbarIdle

\* the operations as the table and a toolbar without local state call them
NextApi ==
    \/ \E i \in 1..Len(inflight) : Settle(i) /\ UNCHANGED toolbarVars
    \/ \E u \in ApiFilterInputs :
           /\ HookUpdateFilter("column", "city", composeFilterExpression(u))
           /\ UNCHANGED toolbarVars
    \/ \E value \in {<<>>, <<"B", "E", "R">>} :
           HookUpdateFilter("search", "", value) /\ UNCHANGED toolbarVars
    \/ HookClearFilters /\ UNCHANGED toolbarVars
    \/ \E key \in {"id", "city"}, multiSort \in BOOLEAN :
           HookHandleSort(key, multiSort) /\ UNCHANGED toolbarVars
    \/ \E page \in 1..MaxPage :
           HookSetCurrentPage(page) /\ UNCHANGED toolbarVars
    \/ \E parsed \in TypedItemsPerPage :
           /\ Clamp(totalItems, parsed) # itemsPerPage
           /\ HookUpdateItemsPerPage(Clamp(totalItems, parsed))
           /\ UNCHANGED toolbarVars
    \/ HookToggleColumnVisibility("city") /\ UNCHANGED toolbarVars

SpecApi == InitApi /\ [][NextApi]_vars

----------------------------------------------------------------------------
(* useDataTable (part_002) from its first render with the FastAPI endpoint  *)
(* as apiUrl: the two effects of the mount, the answer of                   *)
(* fetchAvailableColumns, and data requests that settle in any order or     *)
(* fail.  No request is ever cancelled, and a response carries nothing that *)
(* tells which request it answers.                                          *)

\* err.message, or 'Failed to fetch data'
FetchFailed == [kind |-> "string", message |-> "Failed to fetch data"]

\* DataTable renders the toolbar and the table (neither spinner nor error)
Rendered == ~loading /\ error = Null

\* the effects of the first render: initializeColumns sets isUsingFastAPI and
\* awaits fetchAvailableColumns; the loadData effect, still seeing
\* isUsingFastAPI = false, starts the legacy branch.  The render that follows
\* starts nothing (columns.length is 0 and isUsingFastAPI is true).
Mount ==
    /\ lastRequest = [none |-> TRUE]
    /\ ~isUsingFastAPI
    /\ isUsingFastAPI' = TRUE
    /\ columnsPending' = TRUE
    /\ inflight' = << LegacyRequest >>
    /\ lastRequest' = LegacyRequest
    /\ loading' = TRUE
    /\ error' = Null
    /\ UNCHANGED <<hookVersion, data, totalItems, currentPage, itemsPerPage,
                   sortConfig, searchTerm, columnFilters, visibleColumns,
                   selectedColumns, columns>>
    /\ UNCHANGED pureVars

\* initializeColumns after its await: setAvailableColumns;
\* setSelectedColumns(allColumnKeys); setColumns(generatedColumns)
ColumnsArrive ==
    /\ columnsPending
    /\ columnsPending' = FALSE
    /\ selectedColumns' = ColumnKeys
    /\ columns' = SeqRange(ColumnKeys)
    /\ visibleColumns' = SeqRange(ColumnKeys)
    /\ UNCHANGED <<hookVersion, data, totalItems, currentPage, itemsPerPage,
                   sortConfig, searchTerm, columnFilters, isUsingFastAPI>>
    /\ LoadDataEffect(TRUE)
    /\ UNCHANGED pureVars

\* loadData's fetch rejects: setError(message); setLoading(false)
Fail(i) ==
    /\ i \in 1..Len(inflight)
    /\ error' = FetchFailed
    /\ loading' = FALSE
    /\ inflight' = RemoveAt(inflight, i)
    /\ UNCHANGED <<hookVersion, data, totalItems, currentPage, itemsPerPage,
                   sortConfig, searchTerm, columnFilters, isUsingFastAPI,
                   lastRequest, visibleColumns, selectedColumns, columns,
                   columnsPending>>
    /\ UNCHANGED pureVars

\* the page sizes typed in this specification
MountItemsPerPage == {2, DefaultItemsPerPage}

InitMount ==
    /\ hookVersion = 2
    /\ HookInit
    /\ ParseIdle
    /\ ApiIdle
    /\ ToolbarIdle

NextMount ==
    \/ Mount /\ UNCHANGED toolbarVars
    \/ ColumnsArrive /\ UNCHANGED toolbarVars
    \/ \E i \in 1..Len(inflight) : Settle(i) /\ UNCHANGED toolbarVars
    \/ \E i \in 1..Len(inflight) : Fail(i) /\ UNCHANGED toolbarVars
    \/ \E value \in {<<>>, <<"B", "E", "R">>} :
           /\ Rendered
           /\ HookUpdateFilter("search", "", value)
           /\ UNCHANGED toolbarVars
    \/ /\ Rendered
       /\ HookHandleSort("id", FALSE)
       /\ UNCHANGED toolbarVars
    \/ \E page \in 1..MaxPage :
           /\ Rendered
           /\ HookSetCurrentPage(page)
           /\ UNCHANGED toolbarVars
    \/ \E parsed \in MountItemsPerPage :
           /\ Rendered
           /\ Clamp(totalItems, parsed) # itemsPerPage
           /\ HookUpdateItemsPerPage(Clamp(totalItems, parsed))
           /\ UNCHANGED toolbarVars
    \/ Rendered /\ HookToggleColumnVisibility("city") /\ UNCHANGED toolbarVars

SpecMount == InitMount /\ [][NextMount]_vars

----------------------------------------------------------------------------
(* TableToolbar (second version) on the hook of part_002: the debounced     *)
(* search input, the columns popover and the items-per-page input.  The    *)
(* toolbar is unmounted while DataTable shows the spinner and mounted      *)
(* afresh when loadData has settled.                                        *)

\* setTimeout(..., 400) of the debounce effect
DebounceMs == 400

NoTimer == [pending |-> FALSE]

\* what is typed into the search input
TypedSearch == { <<>>, <<"B">>, <<"B", "P">> }

\* what is typed into the items-per-page input
TypedItemsPerPageText == { <<>>, <<"0">>, <<"2">>, <<"x">> }

\* the toolbar leaves the screen with the table
ToolbarUnmounted ==
    /\ searchInput' = <<>>
    /\ debounce' = NoTimer
    /\ sinceEdit' = 0
    /\ columnsOpen' = FALSE
    /\ allowCloseRef' = TRUE
    /\ closeTimer' = FALSE
    /\ itemsPerPageInput' = <<>>

\* a debounce effect that leaves a pending timer alone when the input changes
DebounceEffectKeepsTimer(rerendered) ==
    IF searchInput' = searchTerm' THEN debounce' = NoTimer
    ELSE IF debounce.pending THEN debounce' = debounce
         ELSE debounce' = [pending |-> TRUE, value |-> searchInput', age |-> 0]

\* the debounce effect after a render of the toolbar: it runs again (clearing
\* the timer of its last run) when searchInput, filters.searchTerm or
\* onUpdateFilter (new with every render of the hook) has changed
DebounceEffect(rerendered) ==
    IF searchInput' = searchTerm' THEN debounce' = NoTimer
    ELSE IF rerendered \/ searchInput' # searchInput \/ searchTerm' # searchTerm
         THEN debounce' = [pending |-> TRUE, value |-> searchInput', age |-> 0]
         ELSE debounce' = debounce

\* the toolbar after one of its handlers has run
ToolbarAfter(input, open, allow, timer, perPage, edited, rerendered) ==
    IF loading' THEN ToolbarUnmounted
    ELSE /\ searchInput' = input
         /\ columnsOpen' = open
         /\ allowCloseRef' = allow
         /\ closeTimer' = timer
         /\ itemsPerPageInput' = perPage
         /\ sinceEdit' = IF edited THEN 0 ELSE sinceEdit
         /\ DebounceEffect(rerendered)

\* a handler that sets local state of the toolbar only
HookUntouched == UNCHANGED <<hookVars, apiVars, pureVars>>

\* loadData settles and DataTable renders the toolbar again, unless the
\* loadData effect has started the next request
ToolbarSettle(i) ==
    /\ Settle(i)
    /\ IF loading' THEN ToolbarUnmounted
       ELSE /\ searchInput' = searchTerm
            /\ debounce' = NoTimer
            /\ sinceEdit' = 0
            /\ columnsOpen' = FALSE
            /\ allowCloseRef' = TRUE
            /\ closeTimer' = FALSE
            /\ itemsPerPageInput' = NumToString(itemsPerPage)

handleSearchChange(value) ==
    /\ ~loading
    /\ value # searchInput
    /\ IF value = <<>>
       THEN HookUpdateFilter("search", "", <<>>)
       ELSE HookUntouched
    /\ ToolbarAfter(value, columnsOpen, allowCloseRef, closeTimer,
                    itemsPerPageInput, TRUE, value = <<>>)

\* e.key === 'Enter'
handleSearchKeyDown ==
    /\ HookUpdateFilter("search", "", searchInput)
    /\ ToolbarAfter(searchInput, columnsOpen, allowCloseRef, closeTimer,
                    itemsPerPageInput, FALSE, TRUE)

\* TickMs pass while the debounce timer is pending
Tick ==
    /\ ~loading
    /\ debounce.pending
    /\ debounce.age < DebounceMs
    /\ debounce' = [debounce EXCEPT !.age = @ + TickMs]
    /\ sinceEdit' = IF sinceEdit >= DebounceMs THEN sinceEdit
                    ELSE sinceEdit + TickMs
    /\ UNCHANGED <<searchInput, columnsOpen, allowCloseRef, closeTimer,
                   itemsPerPageInput>>
    /\ HookUntouched

\* the callback of the debounce timer
DebounceFire ==
    /\ debounce.pending
    /\ debounce.age >= DebounceMs
    /\ HookUpdateFilter("search", "", debounce.value)
    /\ ToolbarAfter(searchInput, columnsOpen, allowCloseRef, closeTimer,
                    itemsPerPageInput, FALSE, TRUE)

\* onOpenChange(true)
OpenColumns ==
    /\ ~loading
    /\ ~columnsOpen
    /\ columnsOpen' = TRUE
    /\ UNCHANGED <<searchInput, debounce, sinceEdit, allowCloseRef, closeTimer,
                   itemsPerPageInput>>
    /\ HookUntouched

\* onOpenChange(false)
RequestCloseColumns ==
    /\ ~loading
    /\ columnsOpen
    /\ columnsOpen' = ~allowCloseRef
    /\ UNCHANGED <<searchInput, debounce, sinceEdit, allowCloseRef, closeTimer,
                   itemsPerPageInput>>
    /\ HookUntouched

\* onPointerDownOutside, onEscapeKeyDown
DismissColumns ==
    /\ ~loading
    /\ columnsOpen
    /\ allowCloseRef' = TRUE
    /\ columnsOpen' = FALSE
    /\ UNCHANGED <<searchInput, debounce, sinceEdit, closeTimer,
                   itemsPerPageInput>>
    /\ HookUntouched

\* onCheckedChange of a column's checkbox, onClick of its label; the click
\* comes after the zero-delay timer of the click before it
ToggleColumn(columnKey) ==
    /\ columnsOpen
    /\ ~closeTimer
    /\ HookToggleColumnVisibility(columnKey)
    /\ ToolbarAfter(searchInput, columnsOpen, FALSE, TRUE, itemsPerPageInput,
                    FALSE, TRUE)

\* onClick of 'Select all' (all the keys) and of 'Clear' (none)
SelectColumns(columnKeys) ==
    /\ columnsOpen
    /\ ~closeTimer
    /\ HookUpdateSelectedColumns(columnKeys)
    /\ ToolbarAfter(searchInput, columnsOpen, FALSE, TRUE, itemsPerPageInput,
                    FALSE, isUsingFastAPI)

\* setTimeout(() => { allowCloseRef.current = true; }, 0)
CloseTimerFire ==
    /\ ~loading
    /\ closeTimer
    /\ allowCloseRef' = TRUE
    /\ closeTimer' = FALSE
    /\ UNCHANGED <<searchInput, debounce, sinceEdit, columnsOpen,
                   itemsPerPageInput>>
    /\ HookUntouched

\* e.target.value.replace(/[^0-9]/g, '')
StripNonDigits(s) == SelectSeq(s, LAMBDA c : IsDigits(<<c>>))

handleItemsPerPageInputChange(value) ==
    /\ ~loading
    /\ itemsPerPageInput' = StripNonDigits(value)
    /\ UNCHANGED <<searchInput, debounce, sinceEdit, columnsOpen, allowCloseRef,
                   closeTimer>>
    /\ HookUntouched

\* Enter or blur in the items-per-page input
CommitItemsPerPageInput ==
    /\ ~loading
    /\ LET raw == Trim(itemsPerPageInput)
           clamped == Clamp(totalItems, DigitsValue(raw))
       IN  IF raw = <<>>
           THEN /\ HookUntouched
                /\ ToolbarAfter(searchInput, columnsOpen, allowCloseRef,
                                closeTimer, NumToString(itemsPerPage),
                                FALSE, FALSE)
           ELSE /\ IF clamped # itemsPerPage
                   THEN HookUpdateItemsPerPage(clamped)
                   ELSE HookUntouched
                /\ ToolbarAfter(searchInput, columnsOpen, allowCloseRef,
                                closeTimer, NumToString(clamped),
                                FALSE, clamped # itemsPerPage)

\* the hook with its first data request on its way, in either mode
InitToolbar ==
    /\ hookVersion = 2
    /\ isUsingFastAPI \in BOOLEAN
    /\ loading = TRUE
    /\ data = <<>>
    /\ totalItems = 0
    /\ currentPage = 1
    /\ itemsPerPage = DefaultItemsPerPage
    /\ sortConfig = <<>>
    /\ searchTerm = <<>>
    /\ columnFilters = <<>>
    /\ visibleColumns = IF isUsingFastAPI THEN SeqRange(ColumnKeys) ELSE {}
    /\ columns = visibleColumns
    /\ error = Null
    /\ columnsPending = FALSE
    /\ selectedColumns = IF isUsingFastAPI THEN ColumnKeys ELSE <<>>
    /\ inflight = IF isUsingFastAPI
                  THEN << QueryOf(OptionsOf(ColumnKeys, 1, DefaultItemsPerPage,
                                            <<>>, <<>>)) >>
                  ELSE << LegacyRequest >>
    /\ lastRequest = inflight[1]
    /\ ParseIdle
    /\ ToolbarIdle

NextToolbar ==
    \/ \E i \in 1..Len(inflight) : ToolbarSettle(i)
    \/ \E value \in TypedSearch : handleSearchChange(value)
    \/ handleSearchKeyDown
    \/ Tick
    \/ DebounceFire
    \/ OpenColumns
    \/ RequestCloseColumns
    \/ DismissColumns
    \/ ToggleColumn("city")
    \/ SelectColumns(ColumnKeys)
    \/ SelectColumns(<<>>)
    \/ CloseTimerFire
    \/ \E value \in TypedItemsPerPageText : handleItemsPerPageInputChange(value)
    \/ CommitItemsPerPageInput

SpecToolbar == InitToolbar /\ [][NextToolbar]_vars

----------------------------------------------------------------------------
(* DataTable: getNestedValue.  A path is a sequence of key names and ".",  *)
(* so that split('.') is computed; a segment of several names is a key no  *)
(* record has.                                                             *)

\* path.split('.'): the segments between the dots (one more than the dots)
RECURSIVE Split(_)
Split(p) ==
    LET dots == {i \in 1..Len(p) : p[i] = "."}
    IN  IF dots = {} THEN <<p>>
        ELSE <<SubSeq(p, 1, SetMin(dots) - 1)>>
                 \o Split(SubSeq(p, SetMin(dots) + 1, Len(p)))

\* JavaScript truthiness of a value
Truthy(v) ==
    CASE v.kind = "obj" -> TRUE
      [] v.kind = "str" -> v.str # <<>>
      [] v.kind = "num" -> v.num # 0
      [] OTHER -> FALSE

\* current[key]: an own property of a record, the length of a string,
\* undefined for the other names of the model
Property(current, key) ==
    CASE current.kind = "obj" ->
             IF Len(key) = 1 THEN Get(current.obj, key[1]) ELSE Undefined
      [] current.kind = "str" ->
             IF key = <<"length">> THEN Num(Len(current.str)) ELSE Undefined
      [] OTHER -> Undefined

\* the callback of reduce
ResolveKey(current, key) ==
    IF Truthy(current) /\ Property(current, key) # Undefined
    THEN Property(current, key) ELSE Undefined

\* path.split('.').reduce(callback, obj), from segment i on
RECURSIVE Reduce(_, _, _)
Reduce(current, keys, i) ==
    IF i > Len(keys) THEN current
    ELSE Reduce(ResolveKey(current, keys[i]), keys, i + 1)

getNestedValue(obj, p) == Reduce(Obj(obj), Split(p), 1)

\* the rows and paths getNestedValue is called with
ResolveRows ==
    { [id |-> Num(1), city |-> Str(Paris), zip |-> Null,
       address |-> Obj([city |-> Str(Berlin)])],
      [id |-> Num(0), address |-> Obj([zip |-> Num(5)])] }

PathTokens == {"address", "city", "length", "."}

Paths == UNION {[1..n -> PathTokens] : n \in 0..MaxPathLen}

Resolve ==
    /\ rstage = "input"
    /\ resolved' = getNestedValue(rowData, path)
    /\ rstage' = "resolved"
    /\ UNCHANGED <<rowData, path>>
    /\ UNCHANGED <<parseVars, hookVars, apiVars, toolbarVars>>

InitResolve ==
    /\ rowData \in ResolveRows
    /\ path \in Paths
    /\ resolved = Undefined
    /\ rstage = "input"
    /\ expr = <<>> /\ ui = EmptyUI /\ composed = <<>> /\ pstage = "idle"
    /\ hookVersion = 2
    /\ HookInit
    /\ ApiIdle
    /\ ToolbarIdle

SpecResolve == InitResolve /\ [][Resolve]_vars

----------------------------------------------------------------------------
(* The filter-expression functions applied to every short expression *)

Alphabet == {">", "<", "=", "!", ".", " ", "5"}

\* expressions of the documentation, longer than MaxLen
ExampleExpressions ==
    { <<">", "=", "1", ".", ".", "5">>,
      <<" ", "1", " ", ".", ".", " ", "1", "0", " ">>,
      <<"<", "=", " ", "1", "0">> }

Expressions == UNION {[1..n -> Alphabet] : n \in 0..MaxLen} \cup ExampleExpressions

\* the sync effect: next[col.key] = parseFilterExpression(raw)
ParseExpr ==
    /\ pstage = "input"
    /\ ui' = parseFilterExpression(expr)
    /\ pstage' = "parsed"
    /\ UNCHANGED <<expr, composed>>
    /\ UNCHANGED outsideParse

\* commitColumnFilter: expr = composeFilterExpression(ui)
ComposeUI ==
    /\ pstage = "parsed"
    /\ composed' = composeFilterExpression(ui)
    /\ pstage' = "composed"
    /\ UNCHANGED <<expr, ui>>
    /\ UNCHANGED outsideParse

InitParse ==
    /\ ResolveIdle
    /\ expr \in Expressions
    /\ ui = EmptyUI
    /\ composed = <<>>
    /\ pstage = "input"
    /\ hookVersion = 2
    /\ HookInit
    /\ ApiIdle
    /\ ToolbarIdle

NextParse == ParseExpr \/ ComposeUI

SpecParse == InitParse /\ [][NextParse]_vars

----------------------------------------------------------------------------
(* Properties of parseFilterExpression *)

Parsed == pstage \in {"parsed", "composed"}

FirstTwo(t) == IF Len(t) >= 2 THEN SubSeq(t, 1, 2) ELSE <<>>
FirstOne(t) == IF Len(t) >= 1 THEN SubSeq(t, 1, 1) ELSE <<>>
Descriptor(op, operand) == [op |-> op, v1 |-> Trim(operand), v2 |-> <<>>]

\* the descriptor the documented precedence >=, <=, !=, ==, >, <, = gives
PrefixReading(t) ==
    IF FirstTwo(t) = <<">", "=">> THEN Descriptor("gte", SubSeq(t, 3, Len(t)))
    ELSE IF FirstTwo(t) = <<"<", "=">> THEN Descriptor("lte", SubSeq(t, 3, Len(t)))
    ELSE IF FirstTwo(t) = <<"!", "=">> THEN Descriptor("neq", SubSeq(t, 3, Len(t)))
    ELSE IF FirstTwo(t) = <<"=", "=">> THEN Descriptor("eq", SubSeq(t, 3, Len(t)))
    ELSE IF FirstOne(t) = <<">">> THEN Descriptor("gt", SubSeq(t, 2, Len(t)))
    ELSE IF FirstOne(t) = <<"<">> THEN Descriptor("lt", SubSeq(t, 2, Len(t)))
    ELSE IF FirstOne(t) = <<"=">> THEN Descriptor("eq", SubSeq(t, 2, Len(t)))
    ELSE [op |-> "contains", v1 |-> t, v2 |-> <<>>]

\* positions (1-based) at which ".." starts in s
RangeMarks(s) == {i \in 1..(Len(s) - 1) : s[i] = "." /\ s[i + 1] = "."}

\* C1: an expression without ".." is read by the first matching prefix in
\* the order >=, <=, !=, ==, >, <, = and the trimmed remainder is the operand:
\* "==5" and "=5" are eq "5", ">=5" is gte "5", "<=5" is lte "5", "!=5" is
\* neq "5".
C1_PrefixOperatorOrder ==
    (Parsed /\ RangeMarks(expr) = {}) =>
        /\ ui = PrefixReading(Trim(expr))
        /\ expr = <<"=", "=", "5">> => ui = Descriptor("eq", <<"5">>)
        /\ expr = <<"=", "5">> => ui = Descriptor("eq", <<"5">>)
        /\ expr = <<">", "=", "5">> => ui = Descriptor("gte", <<"5">>)
        /\ expr = <<"<", "=", "5">> => ui = Descriptor("lte", <<"5">>)
        /\ expr = <<"!", "=", "5">> => ui = Descriptor("neq", <<"5">>)
        /\ ui.v2 = <<>>

\* "==5" has been parsed to eq with operand "5"
C1_Witness ==
    /\ pstage = "parsed"
    /\ expr = <<"=", "=", "5">>
    /\ ui = [op |-> "eq", v1 |-> <<"5">>, v2 |-> <<>>]

\* C2: an expression containing ".." is a range whatever it starts with: the
\* operator is between and the operands are the trimmed text before the
\* first ".." and the trimmed text after it (">=1..5" is between ">=1" and
\* "5").
C2_RangeBeforePrefix ==
    (Parsed /\ RangeMarks(expr) # {}) =>
        LET first == SetMin(RangeMarks(expr))
        IN  /\ ui.op = "between"
            /\ ui.v1 = Trim(SubSeq(expr, 1, first - 1))
            /\ ui.v2 = Trim(SubSeq(expr, first + 2, Len(expr)))

\* ">=1..5" has been parsed to between ">=1" and "5"
C2_Witness ==
    /\ pstage = "parsed"
    /\ expr = <<">", "=", "1", ".", ".", "5">>
    /\ ui = [op |-> "between", v1 |-> <<">", "=", "1">>, v2 |-> <<"5">>]

----------------------------------------------------------------------------
(* Properties of the client-side filter *)

Loaded == ~loading
Rows == 1..Len(data)
Kept(i) == i \in SeqRange(filteredData)
ActiveFilters == {e \in SeqRange(columnFilters) : e.value # <<>>}
Blank(e) == Trim(e.value) = <<>>

\* the pipeline does not look at a column whose expression is empty
EmptyFilterIsNoPredicate ==
    \A i \in 1..Len(columnFilters) :
        columnFilters[i].value = <<>> =>
            filteredData = filteredDataOf(RemoveAt(columnFilters, i))

\* the 'filters' parameter names exactly the columns with a non-blank value
BlankLeftOutOfQuery ==
    LET param == filtersParam(columnFilters)
    IN  /\ \A e \in SeqRange(columnFilters) :
               (\E i \in 1..Len(param.pairs) : param.pairs[i][1] = e.key)
                   <=> ~Blank(e)
        /\ \A i \in 1..Len(param.pairs) : param.pairs[i][2] # <<>>
        /\ param.present <=> (\E e \in SeqRange(columnFilters) : ~Blank(e))

\* committing a descriptor whose operand is empty stores the empty expression
EmptyOperandComposesEmpty ==
    \A key \in {"id", "city", "address"}, u \in UIInputs :
        (u.v1 = <<>> /\ commitColumnFilter(key, u)) =>
            FilterValue(columnFilters', key) = <<>>

\* C3: an empty raw filter string is no predicate: the client-side pipeline
\* keeps the records it keeps without that column, the filter UI stores the
\* empty expression when the operand is empty, and the 'filters' query
\* parameter leaves blank-valued columns out and is omitted when no column
\* has a non-blank value.
C3_EmptyFilterNoPredicate ==
    /\ [](EmptyFilterIsNoPredicate /\ BlankLeftOutOfQuery)
    /\ [][EmptyOperandComposesEmpty]_vars

\* one column holds the empty expression, another one a blank one, and the
\* query carries no 'filters' parameter
C3_Witness ==
    /\ Loaded
    /\ \E e \in SeqRange(columnFilters) : e.value = <<>>
    /\ \E e \in SeqRange(columnFilters) : e.value # <<>> /\ Blank(e)
    /\ ~filtersParam(columnFilters).present

\* C4: a record is in the filtered set iff it matches the search term (every
\* record matches the empty term) and matches every column filter whose
\* expression is non-empty; the order in which the column filters were
\* entered does not matter, and the records keep their order.
C4_FilterConjunction ==
    Loaded =>
        LET result == filteredData
            kept == SeqRange(result)
            active == ActiveFilters
        IN  /\ \A i \in Rows :
                   i \in kept <=>
                       /\ searchTerm = <<>> \/ MatchesSearch(data[i], searchTerm)
                       /\ \A e \in active :
                              MatchesColumn(data[i], e.key, e.value)
            /\ \A p \in Permutations(columnFilters) :
                   filteredDataOf(p) = result
            /\ \A p, q \in 1..Len(result) : p < q => result[p] < result[q]

\* two column filters are active and a record that passes one of them is
\* excluded because it fails the other
C4_Witness ==
    /\ Loaded
    /\ \E e, f \in ActiveFilters :
           /\ e.key # f.key
           /\ \E i \in Rows :
                  /\ MatchesColumn(data[i], e.key, e.value)
                  /\ ~MatchesColumn(data[i], f.key, f.value)
                  /\ ~Kept(i)

IsNumeral(s) == s # <<>> /\ IsDigits(s)

\* the relation a parsed descriptor with numeric operands states of a number
NumberSatisfies(n, p) ==
    CASE p.op = "eq"  -> n = DigitsValue(p.v1)
      [] p.op = "neq" -> n # DigitsValue(p.v1)
      [] p.op = "gt"  -> n > DigitsValue(p.v1)
      [] p.op = "gte" -> n >= DigitsValue(p.v1)
      [] p.op = "lt"  -> n < DigitsValue(p.v1)
      [] p.op = "lte" -> n <= DigitsValue(p.v1)
      [] p.op = "between" -> DigitsValue(p.v1) <= n /\ n <= DigitsValue(p.v2)

\* C5: with no search term and one active column filter that is a
\* relational, equality or range expression with numeric operands, the
\* filtered records are exactly those whose number in that column satisfies
\* the relation (id:>=2 on ids 1, 2, 3 keeps 2 and 3).
C5_RelationalFilter ==
    (Loaded /\ searchTerm = <<>> /\ Cardinality(ActiveFilters) = 1) =>
        \A e \in ActiveFilters :
            LET p == parseFilterExpression(e.value)
            IN  (/\ p.op # "contains"
                 /\ IsNumeral(p.v1)
                 /\ p.op = "between" => IsNumeral(p.v2)) =>
                    \A i \in Rows :
                        Kept(i) <=>
                            /\ Get(data[i], e.key).kind = "num"
                            /\ NumberSatisfies(Get(data[i], e.key).num, p)

\* C6: a record in which the filtered column's key is missing is excluded by
\* every non-empty filter expression on that column.
C6_AbsentNeverMatches ==
    Loaded =>
        \A e \in ActiveFilters : \A i \in Rows :
            Get(data[i], e.key).kind = "undefined" => ~Kept(i)

\* some scalar reachable in the record, nested records included, has a text
\* form that contains the term, case-insensitively
RECURSIVE SomeScalarContains(_, _)
SomeScalarContains(item, term) ==
    \E k \in DOMAIN item :
        IF item[k].kind = "obj"
        THEN SomeScalarContains(item[k].obj, term)
        ELSE Includes(ToLowerCase(StringOf(item[k])), ToLowerCase(term))

\* C7: the empty term keeps every record; a non-empty term keeps exactly the
\* records in which some scalar value, at any depth, contains the term
\* case-insensitively.
C7_GlobalSearch ==
    (Loaded /\ ActiveFilters = {}) =>
        /\ searchTerm = <<>> => filteredData = AllRows
        /\ searchTerm # <<>> =>
               \A i \in Rows :
                   Kept(i) <=> SomeScalarContains(data[i], searchTerm)

\* C8: the total reported with a page is the number of records that pass the
\* search and the column filters, and totalPages is derived from it.
C8_TotalIsFilteredCount ==
    Loaded =>
        /\ TotalItems = Len(filteredData)
        /\ totalPages * itemsPerPage >= Len(filteredData)
        /\ (totalPages - 1) * itemsPerPage < Len(filteredData)
           \/ Len(filteredData) = 0

----------------------------------------------------------------------------
(* Properties of the client-side sort *)

\* the same value (nested records are compared by their text form)
SameValue(a, b) ==
    /\ a.kind = b.kind
    /\ a.kind = "num" => a.num = b.num
    /\ a.kind = "str" => a.str = b.str

Comparable(a, b) == JsLess(a, b) \/ JsLess(b, a) \/ SameValue(a, b)
Absent(v) == v.kind = "undefined"

\* the first position of config whose key holds different values in a and b,
\* 0 when there is none
FirstDifference(a, b, config) ==
    LET at == {k \in 1..Len(config) :
                   ~SameValue(Get(a, config[k].key), Get(b, config[k].key))}
    IN  IF at = {} THEN 0 ELSE SetMin(at)

\* a before b is the order the sort key sort asks for: by value in its
\* direction, a record without a value after one that has a value
InKeyOrder(a, b, sort) ==
    LET va == Get(a, sort.key)
        vb == Get(b, sort.key)
    IN  IF Absent(va) \/ Absent(vb) THEN Absent(vb)
        ELSE IF ~Comparable(va, vb) THEN TRUE
        ELSE IF sort.direction = "desc" THEN JsLess(vb, va)
        ELSE JsLess(va, vb)

\* C9: in the sorted output two records stand in the order of the first sort
\* key on which their values differ, in that key's direction; a later key
\* decides only when every earlier key ties (city asc then id desc on
\* (1,Berlin),(2,Paris),(3,Berlin) gives 3, 1, 2).
C9_MultiKeySort ==
    Loaded =>
        \A sorted \in sortedData :
            /\ \A p, q \in 1..Len(sorted) :
                   LET a == data[sorted[p]]
                       b == data[sorted[q]]
                       k == FirstDifference(a, b, sortConfig)
                   IN  (p < q /\ k > 0) => InKeyOrder(a, b, sortConfig[k])
            /\ (/\ data = CitiesData
                /\ filteredData = AllRows
                /\ sortConfig = << [key |-> "city", direction |-> "asc"],
                                   [key |-> "id", direction |-> "desc"] >>)
                   => sorted = <<3, 1, 2>>

\* C10: sorted by a column in either direction, every record without a value
\* in that column stands after every record that has one.
C10_AbsentSortsLast ==
    (Loaded /\ Len(sortConfig) = 1) =>
        \A sorted \in sortedData :
            \A p, q \in 1..Len(sorted) :
                (/\ Absent(Get(data[sorted[p]], sortConfig[1].key))
                 /\ ~Absent(Get(data[sorted[q]], sortConfig[1].key)))
                    => q < p

\* on records that all carry comparable values in every sort key, the sort is
\* the one C9 describes
AllComparable ==
    \A i, j \in SeqRange(filteredData) : \A k \in 1..Len(sortConfig) :
        /\ ~Absent(Get(data[i], sortConfig[k].key))
        /\ Comparable(Get(data[i], sortConfig[k].key),
                      Get(data[j], sortConfig[k].key))

MultiKeySortOfComparable == AllComparable => C9_MultiKeySort

----------------------------------------------------------------------------
(* Properties of the pagination *)

\* positions of `sorted` that fall into [(page-1)*pageSize, page*pageSize)
PagePositions(sorted, page, pageSize) ==
    {p \in 1..Len(sorted) : (page - 1) * pageSize < p /\ p <= page * pageSize}

\* C11: for a page >= 1 and a page size >= 1 the returned page is exactly the
\* elements at positions [(page-1)*pageSize, page*pageSize) of the filtered
\* and sorted sequence, in that order; a page past the end is empty.
C11_PageIsSlice ==
    (Loaded /\ currentPage >= 1 /\ itemsPerPage >= 1) =>
        \A sorted \in sortedData :
            LET page == paginatedData(sorted)
                first == (currentPage - 1) * itemsPerPage
                positions == PagePositions(sorted, currentPage, itemsPerPage)
            IN  /\ Len(page) = Cardinality(positions)
                /\ \A k \in 1..Len(page) :
                       first + k \in positions /\ page[k] = sorted[first + k]
                /\ (first >= Len(sorted) => page = <<>>)

\* the second page of three records shown two per page: a partial page
C11_Witness ==
    /\ Loaded
    /\ Len(filteredData) = 3
    /\ itemsPerPage = 2
    /\ currentPage = 2

RECURSIVE PagesUpTo(_, _)
\* the pages 1..n of `sorted`, one after the other
PagesUpTo(sorted, n) ==
    IF n = 0 THEN <<>>
    ELSE PagesUpTo(sorted, n - 1) \o pageSlice(sorted, n, itemsPerPage)

\* C12: for a fixed filtered and sorted sequence and page size, the pages
\* 1..totalPages one after the other are the whole sequence: every record
\* exactly once, in order.
C12_PagesPartition ==
    Loaded => \A sorted \in sortedData : PagesUpTo(sorted, totalPages) = sorted

\* three records shown two per page, on the first page: the last page is
\* partial
C12_Witness ==
    /\ Loaded
    /\ Len(filteredData) = 3
    /\ itemsPerPage = 2
    /\ currentPage = 1
    /\ totalPages = 2

----------------------------------------------------------------------------
(* Properties of the hook against the FastAPI endpoint *)

\* the rows on display: paginatedData
Displayed == {data[i] : i \in SeqRange(paginatedData(filteredData))}

\* C13: with the FastAPI endpoint in use, once a column filter has been
\* committed and the table shows data again, the latest data request carried
\* that column's expression in the 'filters' parameter and every row on
\* display satisfies it.
C13_CommittedFilterIsApplied ==
    (isUsingFastAPI /\ ~loading) =>
        \A e \in ActiveFilters :
            ~Blank(e) =>
                /\ lastRequest.filters.present
                /\ <<e.key, Trim(e.value)>> \in SeqRange(lastRequest.filters.pairs)
                /\ \A item \in Displayed :
                       Includes(ToLowerCase(StringOf(Get(item, e.key))),
                                ToLowerCase(Trim(e.value)))

\* the values updateFilter is called with
FilterUpdates ==
    {<<"search", "", <<>>>>, <<"search", "", <<"B", "E", "R">>>>}
        \cup {<<"column", "city", composeFilterExpression(u)>> : u \in ApiFilterInputs}

\* a step of updateFilter, clearFilters or updateItemsPerPage
ResettingStep ==
    \/ \E f \in FilterUpdates : HookUpdateFilter(f[1], f[2], f[3])
    \/ HookClearFilters
    \/ \E n \in 1..DefaultItemsPerPage : HookUpdateItemsPerPage(n)

\* a step of handleSort or toggleColumnVisibility
KeepingStep ==
    \/ \E key \in SeqRange(ColumnKeys), multiSort \in BOOLEAN :
           HookHandleSort(key, multiSort)
    \/ \E key \in SeqRange(ColumnKeys) : HookToggleColumnVisibility(key)

\* C20: immediately after every updateFilter (search or column), clearFilters
\* or updateItemsPerPage, currentPage is 1; handleSort and
\* toggleColumnVisibility leave currentPage unchanged.
C20_CurrentPageReset ==
    [][/\ ResettingStep => currentPage' = 1
       /\ KeepingStep => currentPage' = currentPage]_vars

\* every operation of the claim has acted and the table is on page 1
C20_Witness ==
    /\ currentPage = 1
    /\ searchTerm # <<>>
    /\ columnFilters # <<>>
    /\ sortConfig # <<>>
    /\ itemsPerPage = 2
    /\ visibleColumns = {"id"}

----------------------------------------------------------------------------
(* Properties of the toolbar *)

\* C14: the global search is debounced: the timer updates the applied term
\* only when DebounceMs have passed without an edit of the input, and then
\* with the latest input value; an edit to a non-empty value updates nothing
\* (so a burst of edits gives one update); emptying the input clears the
\* applied term at once and Enter applies the current input at once.
C14_SearchDebounced ==
    [][/\ DebounceFire =>
              /\ sinceEdit >= DebounceMs
              /\ searchTerm' = searchInput
       /\ (\E value \in TypedSearch \ {<<>>} : handleSearchChange(value)) =>
              searchTerm' = searchTerm
       /\ Tick => searchTerm' = searchTerm
       /\ handleSearchChange(<<>>) => searchTerm' = <<>>
       /\ handleSearchKeyDown => searchTerm' = searchInput
       /\ searchTerm' # searchTerm =>
              \/ DebounceFire
              \/ handleSearchKeyDown
              \/ handleSearchChange(<<>>)]_vars

\* after a burst of two edits the timer of the last one has run its time
C14_Witness ==
    /\ debounce.pending
    /\ debounce.value = <<"B", "P">>
    /\ debounce.age >= DebounceMs
    /\ sinceEdit >= DebounceMs
    /\ searchTerm = <<"B">>

\* a column change made in the popover
ColumnChange ==
    \/ \E key \in SeqRange(ColumnKeys) : ToggleColumn(key)
    \/ SelectColumns(ColumnKeys)
    \/ SelectColumns(<<>>)

\* the columns popover through one step
PopoverStep ==
    /\ ColumnChange => columnsOpen'
    /\ (RequestCloseColumns /\ ~allowCloseRef) => columnsOpen'
    /\ DismissColumns => ~columnsOpen'

\* C15: while the columns popover is open, toggling a column, 'Select all'
\* and 'Clear' never close it, nor does a close request that arrives before
\* the zero-delay timer has re-enabled closing; a pointer-down outside and
\* the Escape key always close it.
C15_PopoverStaysOpen == [][PopoverStep]_vars

\* the same with the legacy endpoint, where a column change starts no data
\* request
LegacyPopoverStaysOpen == [][~isUsingFastAPI => PopoverStep]_vars

\* the number the commit of `parsed` is to give: parsed clamped into
\* [1, total], and 1 when total is 0
ClampedInto(total, parsed) ==
    IF total = 0 \/ parsed < 1 THEN 1
    ELSE IF parsed > total THEN total ELSE parsed

\* C16: items per page is applied on Enter or blur only: the commit of a typed
\* number sets itemsPerPage to the number clamped into [1, totalItems] (1 when
\* totalItems is 0), the commit of an empty input leaves itemsPerPage as it is
\* and shows it again, typing changes nothing; so the page size of the
\* pipeline and of every request is an integer >= 1.
C16_ItemsPerPageOnCommit ==
    /\ [](/\ itemsPerPage >= 1
          /\ \A n \in 1..Len(inflight) :
                 "limit" \in DOMAIN inflight[n] => inflight[n].limit >= 1)
    /\ [][/\ (CommitItemsPerPageInput /\ itemsPerPageInput # <<>>) =>
                 itemsPerPage' = ClampedInto(totalItems,
                                             DigitsValue(itemsPerPageInput))
          /\ (CommitItemsPerPageInput /\ itemsPerPageInput = <<>>) =>
                 /\ itemsPerPage' = itemsPerPage
                 /\ itemsPerPageInput' = NumToString(itemsPerPage)
          /\ (\E value \in TypedItemsPerPageText :
                  handleItemsPerPageInputChange(value)) =>
                 itemsPerPage' = itemsPerPage]_vars

\* no record matches the search, a number was committed and clamped to 1
C16_Witness ==
    /\ ~loading
    /\ totalItems = 0
    /\ itemsPerPage = 1
    /\ itemsPerPageInput = <<"1">>

----------------------------------------------------------------------------
(* Properties of handleSort *)

\* the entries of a sort configuration other than the one of `key`, in order
OtherEntries(config, key) == SelectSeq(config, LAMBDA e : e.key # key)

\* a multi-sort click on a column that is not sorted appends {key, asc}
AppendsNewKey(key) ==
    ExistingIndex(sortConfig, key) = 0 =>
        sortConfig' = Append(sortConfig, [key |-> key, direction |-> "asc"])

\* C17: a multi-sort click on a column that is not in sortConfig appends
\* {key, asc} as the last entry; a multi-sort click on any column leaves the
\* position and the direction of every other entry of sortConfig unchanged.
C17_MultiSortFrame ==
    [][\A key \in SeqRange(ColumnKeys) :
           HookHandleSort(key, TRUE) =>
               /\ AppendsNewKey(key)
               /\ \A i \in 1..Len(sortConfig) :
                      sortConfig[i].key # key =>
                          /\ i <= Len(sortConfig')
                          /\ sortConfig'[i] = sortConfig[i]]_vars

\* C17 as amended: a multi-sort click on a column that is not in sortConfig
\* appends {key, asc} as the last entry; a multi-sort click on any column
\* leaves the direction and the relative order of every other entry
\* unchanged, and their positions too unless the click removes the column's
\* own (descending) entry, in which case the entries behind it move up by one.
C17_MultiSortKeepsOthers ==
    [][\A key \in SeqRange(ColumnKeys) :
           HookHandleSort(key, TRUE) =>
               LET at == ExistingIndex(sortConfig, key)
                   removed == at > 0 /\ sortConfig[at].direction = "desc"
               IN  /\ AppendsNewKey(key)
                   /\ OtherEntries(sortConfig', key) = OtherEntries(sortConfig, key)
                   /\ \A i \in 1..Len(sortConfig) :
                          sortConfig[i].key # key =>
                              IF removed /\ i > at
                              THEN sortConfig'[i - 1] = sortConfig[i]
                              ELSE /\ i <= Len(sortConfig')
                                   /\ sortConfig'[i] = sortConfig[i]]_vars

\* two sort keys, the second appended by a multi-sort click and clicked again
C17_Witness ==
    /\ Len(sortConfig) = 2
    /\ sortConfig[1].direction = "desc"
    /\ sortConfig[2].direction = "desc"

----------------------------------------------------------------------------
(* Properties of getNestedValue *)

\* the walk of the keys that stops with absent at a missing key and at a
\* value that is not a nested record
RECURSIVE Walk(_, _, _)
Walk(current, keys, i) ==
    IF i > Len(keys) THEN current
    ELSE IF current.kind # "obj" THEN Undefined
    ELSE IF Len(keys[i]) # 1 \/ keys[i][1] \notin DOMAIN current.obj THEN Undefined
    ELSE Walk(current.obj[keys[i][1]], keys, i + 1)

\* C18: resolving a dotted path against a row yields absent as soon as an
\* intermediate key is missing or the current value is not a nested record;
\* a path that continues below a scalar or null resolves to absent, never to
\* a property of the scalar (and the call never raises).
C18_ResolveStopsAtScalars ==
    rstage = "resolved" => resolved = Walk(Obj(rowData), Split(path), 1)

----------------------------------------------------------------------------
(* Round trip of a one-sided range *)

\* C19: a range with exactly one empty side stays a one-sided range:
\* parseFilterExpression gives between with the empty side kept as the empty
\* string, and composeFilterExpression of that descriptor gives an expression
\* that parses back to the same one-sided between.
C19_OneSidedRangeRoundTrip ==
    pstage = "composed" =>
        LET t == Trim(expr)
            marks == RangeMarks(t)
            k == SetMin(marks)
            left == Trim(SubSeq(t, 1, k - 1))
            right == Trim(SubSeq(t, k + 2, Len(t)))
        IN  (marks # {} /\ (left = <<>>) # (right = <<>>)) =>
                /\ ui = [op |-> "between", v1 |-> left, v2 |-> right]
                /\ parseFilterExpression(composed) = ui

----------------------------------------------------------------------------
(* Sorting: the plain click cycle and the keys of sortConfig *)

\* the direction a key is sorted by, "none" when it is not in sortConfig
DirectionOf(config, key) ==
    IF ExistingIndex(config, key) = 0 THEN "none"
    ELSE config[ExistingIndex(config, key)].direction

\* what a plain click on `key` is to leave in sortConfig
PlainCycle(config, key) ==
    CASE DirectionOf(config, key) = "none" ->
             << [key |-> key, direction |-> "asc"] >>
      [] DirectionOf(config, key) = "asc" ->
             << [key |-> key, direction |-> "desc"] >>
      [] DirectionOf(config, key) = "desc" -> <<>>

\* C21: a plain (non-multi) header click cycles the column through
\* unsorted -> asc -> desc -> unsorted: on a column not in sortConfig it leaves
\* exactly [{key, asc}] (every other key dropped), on a column that is asc
\* [{key, desc}], on a column that is desc the empty list; so sortConfig has at
\* most one entry after any plain click.
C21_PlainClickCycle ==
    [][\A key \in {"id", "city", "address"} :
           handleSort(key, FALSE) =>
               /\ sortConfig' = PlainCycle(sortConfig, key)
               /\ Len(sortConfig') <= 1]_vars

\* a plain click has replaced a multi-sort
C21_Witness ==
    /\ ~loading
    /\ sortConfig = << [key |-> "address", direction |-> "desc"] >>
    /\ hookVersion = 2

\* C24: starting from the empty sortConfig, after any sequence of handleSort
\* calls (plain and multi-sort, on any columns) sortConfig never holds two
\* entries with the same column key.
C24_NoDuplicateSortKeys ==
    \A i, j \in 1..Len(sortConfig) :
        sortConfig[i].key = sortConfig[j].key => i = j

\* two sort keys, the first turned to desc by a Ctrl-click after the second
\* was added
C24_Witness ==
    /\ Len(sortConfig) = 2
    /\ sortConfig[1].direction = "desc"
    /\ sortConfig[2].direction = "asc"

----------------------------------------------------------------------------
(* Data requests that overlap *)

\* C22: latest request wins: when page, page size, search term, sort or
\* selected columns change while an earlier data request is in flight (the
\* initial load started before FastAPI mode is detected included), then once
\* no request is in flight the data and totalItems of the hook are those of
\* the response to the most recently issued request.
C22_LatestRequestWins ==
    (/\ inflight = <<>>
     /\ lastRequest # [none |-> TRUE]
     /\ error = Null)
        => /\ data = ResultOf(lastRequest).data
           /\ totalItems = ResultOf(lastRequest).total

\* C23: loading is true whenever a data request of the hook has not settled;
\* it becomes false only when the last outstanding request has succeeded or
\* failed; a failed request sets error to its message and leaves the loaded
\* data as it was.
C23_LoadingUntilLastSettles ==
    [][/\ inflight' # <<>> => loading'
       /\ (loading /\ ~loading') => inflight' = <<>>
       /\ \A i \in 1..Len(inflight) :
              Fail(i) => /\ error' = FetchFailed
                         /\ data' = data
                         /\ totalItems' = totalItems]_vars

\* the part of C23 about a failed request, by itself
FailedRequestKeepsData ==
    [][\A i \in 1..Len(inflight) :
           Fail(i) => /\ error' = FetchFailed
                      /\ data' = data
                      /\ totalItems' = totalItems]_vars

====
